---- MODULE Spec2Model ----
(***************************************************************************)
(* Model of publish-preview-packages: the retention cleanup of            *)
(* src/src/cleanup.ts and the publish coordinator of src/src/publish.ts,  *)
(* run by one or two CI runs against one shared npm registry.             *)
(*                                                                         *)
(* Strings are modelled as sequences of tokens.  A branch name is a       *)
(* sequence of characters.  A dist-tag is the token "branch-" followed by *)
(* the characters of the sanitized branch name, or a single other token   *)
(* ("latest").  A version is <<base, "-preview.", hash>> for a preview    *)
(* version and <<base>> for a release; a declared version is the sequence *)
(* of its hyphens and of the hyphen-free words between them.  A file name *)
(* and a file's content are sequences of characters; the SHA-256 digest   *)
(* of hashDirectory is taken to be injective, so a fingerprint stands for *)
(* the bytes that were fed to the digest.  An error message is the set of *)
(* the markers it contains ("404", "E409", ...).                           *)
(*                                                                         *)
(* Registry calls (npm view / publish / dist-tag, the packages API) are   *)
(* atomic and answer according to the registry's state, or fail with an   *)
(* unrelated registry error; the error thrown for a publish over an       *)
(* existing version carries npm's code E409, the one thrown for a missing *)
(* version carries E404.  File-system calls on package.json succeed.      *)
(***************************************************************************)
EXTENDS Integers, Sequences, FiniteSets, TLC

\* ------------------------------------------------------------------ bounds
\* longest branch name, in characters
MaxBranchLen == 1
\* most preview versions the registry holds when cleanup starts
MaxHist == 3
\* most dist-tags the registry holds when cleanup starts
MaxTags == 2
\* largest min-age-days input
MaxMinAgeDays == 1
\* most registry calls that fail with an unrelated error in one behaviour
MaxFaults == 1
\* longest branch name in a direct call of areAllBranchesDeleted
MaxProbeLen == 2
\* longest branch name given to computeVersions
MaxRefLen == 3
\* longest file name in a dist folder
MaxNameLen == 2
\* most entries of a dist folder
MaxEntries == 2
\* longest declared version, in hyphens and words
MaxVersionLen == 5

\* ------------------------------------------------------- program constants
\* 24 * 60 * 60 * 1000, the milliseconds of one day
DayMs == 86400000
HalfDayMs == DayMs \div 2

\* ------------------------------------------------------------ input ranges
\* the publish times of a cleanup scenario reach back MaxMinAgeDays days, in
\* steps of half a day
MaxAgeSteps == 2 * MaxMinAgeDays
\* the max-versions inputs: every ceiling up to the largest history
MaxVersionsInputs == 1..MaxHist
MinAgeDaysInputs == 0..MaxMinAgeDays

\* ------------------------------------------------------------------- sets
Runs == {"r1", "r2"}
Packages == <<"pa", "pb">>
PackageNames == {Packages[i] : i \in 1..Len(Packages)}
Chars == {"a", "-", "/", "."}
DeclaredVersion == <<"1.0.0", "-", "in", "-", "development">>
BaseVersion == "1.0.0"
NoTime == -1
NoVersion == <<>>

Min(a, b) == IF a < b THEN a ELSE b
Max(a, b) == IF a > b THEN a ELSE b

SeqsUpTo(S, n) == UNION {[1..k -> S] : k \in 1..n}
BranchPool == SeqsUpTo(Chars, MaxBranchLen)

\* String.prototype.includes on a token sequence / on an error message
Includes(s, tok) == \E i \in 1..Len(s) : s[i] = tok
MessageIncludes(msg, marker) == marker \in msg

\* ------------------------------------------------------------ versions.ts
\* [^a-zA-Z0-9_-]: "a" stands for the letters and digits
IsAllowedChar(c) == c \in {"a", "_", "-"}

\* the sanitizer replacing slashes only
sanitizeSlashesOnly(b) == [i \in 1..Len(b) |-> IF b[i] = "/" THEN "-" ELSE b[i]]

sanitizeBranchName(b) == [i \in 1..Len(b) |-> IF IsAllowedChar(b[i]) THEN b[i] ELSE "-"]

branchTagOf(b) == <<"branch-">> \o sanitizeBranchName(b)

previewVersionOf(h) == <<BaseVersion, "-preview.", h>>

\* UTF-16 code units, which Array.prototype.sort compares strings by
CharCode(c) == CASE c = "/" -> 47 [] c = "a" -> 97 [] c = "b" -> 98 [] c = "d" -> 100

RECURSIVE StringLess(_, _)
StringLess(x, y) ==
    IF y = <<>> THEN FALSE
    ELSE IF x = <<>> THEN TRUE
    ELSE IF Head(x) = Head(y) THEN StringLess(Tail(x), Tail(y))
    ELSE CharCode(Head(x)) < CharCode(Head(y))

\* path.join(dir, name)
join(dir, name) == dir \o <<"/">> \o name

\* walkDir: the regular files under dir, in the order readdir enumerates the
\* entries, each with what readFile will read from it; an entry that is
\* neither a directory nor a regular file is skipped
RECURSIVE walkDir(_, _)
walkDir(dir, entries) ==
    IF entries = <<>> THEN <<>>
    ELSE LET entry == Head(entries)
             fullPath == join(dir, entry.name)
             found == IF entry.kind = "dir" THEN walkDir(fullPath, entry.entries)
                      ELSE IF entry.kind = "file"
                           THEN <<[path |-> fullPath, content |-> entry.content]>>
                           ELSE <<>>
         IN found \o walkDir(dir, Tail(entries))

\* the files left in the order of enumeration
FilesNotSorted(files) == files

RECURSIVE InsertByPath(_, _)
InsertByPath(s, f) ==
    IF s = <<>> THEN <<f>>
    ELSE IF StringLess(f.path, Head(s).path) THEN <<f>> \o s
    ELSE <<Head(s)>> \o InsertByPath(Tail(s), f)

\* files.sort()
RECURSIVE SortFiles(_)
SortFiles(files) ==
    IF files = <<>> THEN <<>>
    ELSE InsertByPath(SortFiles(SubSeq(files, 1, Len(files) - 1)), files[Len(files)])

\* the for loop of hashDirectory: hash.update(relativePath); hash.update(content)
RECURSIVE DigestInput(_, _)
DigestInput(dirPath, files) ==
    IF files = <<>> THEN <<>>
    ELSE LET file == Head(files)
             relativePath == SubSeq(file.path, Len(dirPath) + 2, Len(file.path))
         IN relativePath \o file.content \o DigestInput(dirPath, Tail(files))

\* hash.digest('hex').substring(0, 12), taken to be injective
Digest(stream) == stream

hashDirectory(dirPath, entries) ==
    Digest(DigestInput(dirPath, SortFiles(walkDir(dirPath, entries))))

\* s ends with suffix
EndsWith(s, suffix) ==
    Len(s) >= Len(suffix) /\ SubSeq(s, Len(s) - Len(suffix) + 1, Len(s)) = suffix

InDevelopment == <<"-", "in", "-", "development">>

\* version.replace(/-in-development$/, '')
StripInDevelopment(v) ==
    IF EndsWith(v, InDevelopment) THEN SubSeq(v, 1, Len(v) - Len(InDevelopment)) ELSE v

\* version.replace(/-.*$/, '')
StripFromFirstHyphen(v) ==
    IF Includes(v, "-")
    THEN SubSeq(v, 1, (CHOOSE i \in 1..Len(v) : v[i] = "-" /\ \A j \in 1..(i - 1) : v[j] # "-") - 1)
    ELSE v

\* the base version with only the -in-development marker stripped
baseVersionMarkerOnly(v) == StripInDevelopment(v)

\* baseVersion = pkg.version.replace(/-in-development$/, '').replace(/-.*$/, '')
baseVersionOf(v) == StripFromFirstHyphen(StripInDevelopment(v))

\* the dist folder of a package: whether it exists, and its entries as readdir
\* enumerates them
NoDist == [exists |-> FALSE, entries |-> <<>>]
Dist(entries) == [exists |-> TRUE, entries |-> entries]

\* the VersionInfo with the branch also in the preview version
VersionInfoBranchInVersion(pkg, sanitizedBranch) ==
    LET distPath == join(pkg.path, <<"d">>)
        contentHash == hashDirectory(distPath, pkg.dist.entries)
    IN [name |-> pkg.name, path |-> pkg.path, currentVersion |-> pkg.version,
        previewVersion |-> baseVersionOf(pkg.version) \o <<"-preview.", sanitizedBranch \o contentHash>>,
        contentHash |-> contentHash,
        branchTag |-> <<"branch-">> \o sanitizedBranch, distPath |-> distPath]

\* computeVersions, the body of the for loop for a package with a dist folder
VersionInfoFor(pkg, sanitizedBranch) ==
    LET distPath == join(pkg.path, <<"d">>)
        contentHash == hashDirectory(distPath, pkg.dist.entries)
    IN [name |-> pkg.name, path |-> pkg.path, currentVersion |-> pkg.version,
        previewVersion |-> baseVersionOf(pkg.version) \o <<"-preview.", contentHash>>,
        contentHash |-> contentHash,
        branchTag |-> <<"branch-">> \o sanitizedBranch, distPath |-> distPath]

\* computeVersions: the results, or the error thrown at the first package
\* without a dist folder
computeVersions(pkgs, branchName) ==
    LET sanitizedBranch == sanitizeBranchName(branchName) IN
    IF \E i \in 1..Len(pkgs) : ~pkgs[i].dist.exists
    THEN [ok |-> FALSE, results |-> <<>>]
    ELSE [ok |-> TRUE, results |-> [i \in 1..Len(pkgs) |-> VersionInfoFor(pkgs[i], sanitizedBranch)]]

\* --------------------------------------------------------------- messages
MsgNotFound == {"404", "E404"}
MsgConflict == {"409", "E409"}
MsgOther == {"500"}

Ok == [ok |-> TRUE, message |-> {}]
Err(msg) == [ok |-> FALSE, message |-> msg]

\* ------------------------------------------------------------------ state
VARIABLES
    registry,         \* package -> sequence of [version, time, by]: the published versions
    distTags,         \* package -> [tag -> version or NoVersion]: the registry's dist-tags
    clock,            \* the current time, in ms
    liveBranches,     \* the branches that exist in the repository
    branch,           \* run -> the branch name of the run
    versions,         \* run -> the VersionInfo list computeVersions gave the run
    maxVersions,      \* run -> input max-versions
    minAgeDays,       \* run -> input min-age-days
    manifest,         \* run -> package -> the version field of package.json in the run's checkout
    pc,               \* run -> where the run is
    idx,              \* run -> index of the package the current loop is at
    originalVersion,  \* run -> publishPackage's originalVersion
    published,        \* run -> publishPackages' result list
    existingBranches, \* run -> cleanupOldVersions' existingBranches
    now,              \* run -> cleanupOldVersions' now
    deletions,        \* run -> the deletions of the current package still to issue
    faults,           \* history: registry calls that failed with an unrelated error
    conflicted,       \* history: run -> packages whose npm publish answered E409
    startedAfter,     \* history: run -> the runs that had completed when it began publishing
    checkFailed,      \* history: run -> packages whose existence check failed with another error
    branchListFailed, \* history: run -> whether listBranches failed
    decisions,        \* history: run -> package -> what cleanup decided for it
    log,              \* history: run -> the deleteVersion calls issued, in order
    packages,         \* run -> the PackageInfo list discoverPackages gave the run, with each dist folder
    probe,            \* the arguments of a direct call of areAllBranchesDeleted
    verdict           \* what that call returned

regVars == <<registry, distTags>>
envVars == <<clock, liveBranches>>
inputVars == <<branch, versions, maxVersions, minAgeDays, packages>>
probeVars == <<probe, verdict>>
publishVars == <<manifest, originalVersion, published, conflicted, startedAfter, checkFailed>>
cleanupVars == <<existingBranches, now, deletions, branchListFailed, decisions, log>>
vars == <<registry, distTags, clock, liveBranches, branch, versions, maxVersions,
          minAgeDays, manifest, pc, idx, originalVersion, published,
          existingBranches, now, deletions, faults, conflicted, startedAfter, checkFailed,
          branchListFailed, decisions, log, packages, probe, verdict>>

AllTags == {branchTagOf(b) : b \in BranchPool} \cup {<<"latest">>}
NoTags == [t \in AllTags |-> NoVersion]

\* ----------------------------------------------------------- the registry
VersionInRegistry(p, v) == \E i \in 1..Len(registry[p]) : registry[p][i].version = v

\* an unrelated registry error is possible while the fault budget lasts
Fault == IF faults < MaxFaults THEN {Err(MsgOther)} ELSE {}

\* npm view <p>@<v> version
NpmViewVersion(p, v) == {IF VersionInRegistry(p, v) THEN Ok ELSE Err(MsgNotFound)} \cup Fault

\* npm publish --tag <tag>
NpmPublishResult(p, v) == {IF VersionInRegistry(p, v) THEN Err(MsgConflict) ELSE Ok} \cup Fault

\* npm dist-tag add <p>@<v> <tag>
NpmDistTagAdd(p, v) == {IF VersionInRegistry(p, v) THEN Ok ELSE Err(MsgNotFound)} \cup Fault

CountFault(out) == faults' = IF out = Err(MsgOther) THEN faults + 1 ELSE faults

\* --------------------------------------------------------------- index.ts
\* run(), step 3: const versions = await computeVersions(packages, branchName);
\* an error thrown there is caught by run(), which fails the run
ComputeVersions(r) ==
    /\ pc[r] = "computeVersions"
    /\ LET out == computeVersions(packages[r], branch[r]) IN
        /\ versions' = [versions EXCEPT ![r] = out.results]
        /\ pc' = [pc EXCEPT ![r] = IF out.ok THEN "getAllBranches" ELSE "failed"]
    /\ UNCHANGED <<regVars, envVars, probeVars, publishVars, cleanupVars, branch, maxVersions,
                   minAgeDays, packages, idx, faults>>

\* ------------------------------------------------------------- publish.ts
CurrentPkg(r) == versions[r][idx[r]]

\* versionExists answering "absent" whatever exec answered
versionExistsNeverTrue(out) == FALSE

\* versionExists, given what exec answered
versionExists(out) ==
    IF out.ok THEN TRUE
    ELSE IF MessageIncludes(out.message, "404") \/ MessageIncludes(out.message, "E404") THEN FALSE
    ELSE FALSE

\* the conflict test without the 409 / E409 alternatives
IsConflictErrorTextOnly(out) ==
    MessageIncludes(out.message, "Cannot publish over existing version")

\* the test of publishPackage's catch block for "version already exists"
IsConflictError(out) ==
    \/ MessageIncludes(out.message, "409")
    \/ MessageIncludes(out.message, "E409")
    \/ MessageIncludes(out.message, "Cannot publish over existing version")

\* the isNew flag publishPackages pushes after publishPackage returned
IsNewAfterPublishPackage(r, p) == TRUE

\* run() calling cleanupOldVersions once more after publishPackages
PushResultThenCleanup(r, isNew) ==
    LET pkg == CurrentPkg(r) IN
    /\ published' = [published EXCEPT ![r] = Append(@,
            [name |-> pkg.name, version |-> pkg.previewVersion,
             tag |-> pkg.branchTag, isNew |-> isNew])]
    /\ idx' = [idx EXCEPT ![r] = IF idx[r] < Len(versions[r]) THEN @ + 1 ELSE 1]
    /\ pc' = [pc EXCEPT ![r] =
            IF idx[r] < Len(versions[r]) THEN "versionExists"
            ELSE IF Len(decisions[r][pkg.name]) < 2 THEN "getAllBranches"
            ELSE "done"]

\* published.push(...) and the step of the for loop; after the last package
\* publishPackages returns and run() writes its summary
PushResult(r, isNew) ==
    LET pkg == CurrentPkg(r) IN
    /\ published' = [published EXCEPT ![r] = Append(@,
            [name |-> pkg.name, version |-> pkg.previewVersion,
             tag |-> pkg.branchTag, isNew |-> isNew])]
    /\ idx' = [idx EXCEPT ![r] = @ + 1]
    /\ pc' = [pc EXCEPT ![r] = IF idx[r] < Len(versions[r]) THEN "versionExists" ELSE "done"]

\* publishPackages with an existence check that throws what it cannot classify
VersionExistsRethrows(r) ==
    /\ pc[r] = "versionExists"
    /\ \E out \in NpmViewVersion(CurrentPkg(r).name, CurrentPkg(r).previewVersion) :
        /\ CountFault(out)
        /\ pc' = [pc EXCEPT ![r] = IF out = Err(MsgOther) THEN "failed"
                                   ELSE IF versionExists(out) THEN "addDistTag"
                                   ELSE "writeManifest"]
        /\ checkFailed' = [checkFailed EXCEPT ![r] =
                IF out = Err(MsgOther) THEN @ \cup {CurrentPkg(r).name} ELSE @]
    /\ startedAfter' = [startedAfter EXCEPT ![r] =
            IF idx[r] = 1 THEN {q \in Runs \ {r} : pc[q] = "done"} ELSE @]
    /\ UNCHANGED <<regVars, envVars, inputVars, probeVars, cleanupVars, idx, manifest,
                   originalVersion, published, conflicted>>

\* publishPackages: const exists = await versionExists(...)
VersionExists(r) ==
    /\ pc[r] = "versionExists"
    /\ \E out \in NpmViewVersion(CurrentPkg(r).name, CurrentPkg(r).previewVersion) :
        /\ CountFault(out)
        /\ pc' = [pc EXCEPT ![r] = IF versionExists(out) THEN "addDistTag" ELSE "writeManifest"]
        /\ checkFailed' = [checkFailed EXCEPT ![r] =
                IF out = Err(MsgOther) THEN @ \cup {CurrentPkg(r).name} ELSE @]
    /\ startedAfter' = [startedAfter EXCEPT ![r] =
            IF idx[r] = 1 THEN {q \in Runs \ {r} : pc[q] = "done"} ELSE @]
    /\ UNCHANGED <<regVars, envVars, inputVars, probeVars, cleanupVars, idx, manifest,
                   originalVersion, published, conflicted>>

\* addDistTag on the registry: the tag now points at the version
SetTag(p, tag, v) == [distTags EXCEPT ![p][tag] = v]

\* publishPackages, exists branch: await addDistTag(...); published.push({isNew: false})
AddDistTag(r) ==
    /\ pc[r] = "addDistTag"
    /\ LET pkg == CurrentPkg(r) IN
       \E out \in NpmDistTagAdd(pkg.name, pkg.previewVersion) :
        /\ CountFault(out)
        /\ IF out.ok
           THEN /\ distTags' = SetTag(pkg.name, pkg.branchTag, pkg.previewVersion)
                /\ PushResult(r, FALSE)
           ELSE /\ pc' = [pc EXCEPT ![r] = "failed"]
                /\ UNCHANGED <<distTags, published, idx>>
    /\ UNCHANGED <<registry, envVars, inputVars, probeVars, cleanupVars, manifest,
                   originalVersion, conflicted, startedAfter, checkFailed>>

\* publishPackage: read package.json, write it with version = previewVersion
WriteManifest(r) ==
    /\ pc[r] = "writeManifest"
    /\ LET pkg == CurrentPkg(r) IN
        /\ originalVersion' = [originalVersion EXCEPT ![r] = manifest[r][pkg.name]]
        /\ manifest' = [manifest EXCEPT ![r][pkg.name] = pkg.previewVersion]
    /\ pc' = [pc EXCEPT ![r] = "npmPublish"]
    /\ UNCHANGED <<regVars, envVars, inputVars, probeVars, cleanupVars, idx, published,
                   faults, conflicted, startedAfter, checkFailed>>

\* npm publish without --tag: the registry moves "latest" to the new version
NpmPublishUntagged(r) ==
    /\ pc[r] = "npmPublish"
    /\ LET pkg == CurrentPkg(r) IN
       \E out \in NpmPublishResult(pkg.name, pkg.previewVersion) :
        /\ CountFault(out)
        /\ IF out.ok
           THEN /\ registry' = [registry EXCEPT ![pkg.name] = Append(@,
                        [version |-> pkg.previewVersion, time |-> clock, by |-> r])]
                /\ distTags' = SetTag(pkg.name, <<"latest">>, pkg.previewVersion)
                /\ pc' = [pc EXCEPT ![r] = "restoreManifest"]
                /\ UNCHANGED conflicted
           ELSE /\ UNCHANGED regVars
                /\ IF IsConflictError(out)
                   THEN /\ pc' = [pc EXCEPT ![r] = "conflictRestore"]
                        /\ conflicted' = [conflicted EXCEPT ![r] = @ \cup {pkg.name}]
                   ELSE /\ pc' = [pc EXCEPT ![r] = "errorRestore"]
                        /\ UNCHANGED conflicted
    /\ UNCHANGED <<envVars, inputVars, probeVars, cleanupVars, idx, manifest, originalVersion,
                   published, startedAfter, checkFailed>>

\* publishPackage: await exec.exec('npm', ['publish', '--tag', tag, ...])
NpmPublish(r) ==
    /\ pc[r] = "npmPublish"
    /\ LET pkg == CurrentPkg(r) IN
       \E out \in NpmPublishResult(pkg.name, pkg.previewVersion) :
        /\ CountFault(out)
        /\ IF out.ok
           THEN /\ registry' = [registry EXCEPT ![pkg.name] = Append(@,
                        [version |-> pkg.previewVersion, time |-> clock, by |-> r])]
                /\ distTags' = SetTag(pkg.name, pkg.branchTag, pkg.previewVersion)
                /\ pc' = [pc EXCEPT ![r] = "restoreManifest"]
                /\ UNCHANGED conflicted
           ELSE /\ UNCHANGED regVars
                /\ IF IsConflictError(out)
                   THEN /\ pc' = [pc EXCEPT ![r] = "conflictRestore"]
                        /\ conflicted' = [conflicted EXCEPT ![r] = @ \cup {pkg.name}]
                   ELSE /\ pc' = [pc EXCEPT ![r] = "errorRestore"]
                        /\ UNCHANGED conflicted
    /\ UNCHANGED <<envVars, inputVars, probeVars, cleanupVars, idx, manifest, originalVersion,
                   published, startedAfter, checkFailed>>

\* publishPackage, after a successful publish: restore the version, return;
\* publishPackages then pushes {isNew: true}
RestoreManifest(r) ==
    /\ pc[r] = "restoreManifest"
    /\ manifest' = [manifest EXCEPT ![r][CurrentPkg(r).name] = originalVersion[r]]
    /\ PushResult(r, TRUE)
    /\ UNCHANGED <<regVars, envVars, inputVars, probeVars, cleanupVars, originalVersion,
                   faults, conflicted, startedAfter, checkFailed>>

\* the conflict path going on to the tag without writing package.json back
ConflictWithoutRestore(r) ==
    /\ pc[r] = "conflictRestore"
    /\ pc' = [pc EXCEPT ![r] = "conflictAddDistTag"]
    /\ UNCHANGED <<regVars, envVars, inputVars, probeVars, cleanupVars, idx, originalVersion,
                   published, faults, conflicted, startedAfter, checkFailed, manifest>>

\* publishPackage, catch block, conflict: restore the original version first
ConflictRestore(r) ==
    /\ pc[r] = "conflictRestore"
    /\ manifest' = [manifest EXCEPT ![r][CurrentPkg(r).name] = originalVersion[r]]
    /\ pc' = [pc EXCEPT ![r] = "conflictAddDistTag"]
    /\ UNCHANGED <<regVars, envVars, inputVars, probeVars, cleanupVars, idx, originalVersion,
                   published, faults, conflicted, startedAfter, checkFailed>>

\* publishPackage, catch block, conflict: await addDistTag(...); return;
\* publishPackages then pushes its result
ConflictAddDistTag(r) ==
    /\ pc[r] = "conflictAddDistTag"
    /\ LET pkg == CurrentPkg(r) IN
       \E out \in NpmDistTagAdd(pkg.name, pkg.previewVersion) :
        /\ CountFault(out)
        /\ IF out.ok
           THEN /\ distTags' = SetTag(pkg.name, pkg.branchTag, pkg.previewVersion)
                /\ PushResult(r, IsNewAfterPublishPackage(r, pkg.name))
           ELSE /\ pc' = [pc EXCEPT ![r] = "failed"]
                /\ UNCHANGED <<distTags, published, idx>>
    /\ UNCHANGED <<registry, envVars, inputVars, probeVars, cleanupVars, manifest,
                   originalVersion, conflicted, startedAfter, checkFailed>>

\* what the catch block's "restore" writes: the package.json it reads back from disk
RestoredOnError(r, p) == manifest[r][p]

\* publishPackage, catch block, any other error: re-read package.json, write it
\* back, throw; run() reports the failure
ErrorRestore(r) ==
    /\ pc[r] = "errorRestore"
    /\ LET p == CurrentPkg(r).name IN
       manifest' = [manifest EXCEPT ![r][p] = RestoredOnError(r, p)]
    /\ pc' = [pc EXCEPT ![r] = "failed"]
    /\ UNCHANGED <<regVars, envVars, inputVars, probeVars, cleanupVars, idx, originalVersion,
                   published, faults, conflicted, startedAfter, checkFailed>>

PublishStep(r) ==
    \/ VersionExists(r)
    \/ AddDistTag(r)
    \/ WriteManifest(r)
    \/ NpmPublish(r)
    \/ RestoreManifest(r)
    \/ ConflictRestore(r)
    \/ ConflictAddDistTag(r)
    \/ ErrorRestore(r)

\* ------------------------------------------------------------- cleanup.ts
TagsOfVersion(p, v) == {t \in AllTags : distTags[p][t] = v}

\* the filter of the listing letting every version through
IsAnyVersion(e) == TRUE

\* v.includes('-preview.')
IsPreviewVersion(e) == Includes(e.version, "-preview.")

\* the listing with the epoch as the publish time of a version that has none
getPreviewVersionsEpoch(p, listedAt) ==
    LET pv == SelectSeq(registry[p], LAMBDA e : Includes(e.version, "-preview.")) IN
    [i \in 1..Len(pv) |->
        [version |-> pv[i].version,
         tags |-> {t \in AllTags : distTags[p][t] = pv[i].version},
         publishedAt |-> IF pv[i].time # NoTime THEN pv[i].time ELSE 0]]

\* getPreviewVersions, the listing succeeded: the preview versions in the
\* registry's order, each with its tags and its publish time (the time of the
\* listing when the registry reports none)
getPreviewVersions(p, listedAt) ==
    LET pv == SelectSeq(registry[p], IsPreviewVersion) IN
    [i \in 1..Len(pv) |->
        [version |-> pv[i].version,
         tags |-> TagsOfVersion(p, pv[i].version),
         publishedAt |-> IF pv[i].time # NoTime THEN pv[i].time ELSE listedAt]]

\* getPreviewVersions taking the registry's listing whatever exec answered
previewVersionsDespiteError(out, p, listedAt) == getPreviewVersions(p, listedAt)

\* getPreviewVersions with its catch block: the listing, or [] when exec failed
\* (with E404 silently, with any other error after a warning)
previewVersionsOrNone(out, p, listedAt) ==
    IF out.ok THEN getPreviewVersions(p, listedAt) ELSE <<>>

\* tag.startsWith('branch-')
StartsWithBranch(tag) == Len(tag) >= 1 /\ tag[1] = "branch-"

\* tag.replace(/^branch-/, '')
StripBranchPrefix(tag) == IF StartsWithBranch(tag) THEN Tail(tag) ELSE tag

\* branchName.replace(/-/g, '/')
RestoreSlashes(s) == [i \in 1..Len(s) |-> IF s[i] = "-" THEN "/" ELSE s[i]]

\* the check with only the literal branch name looked up
areAllBranchesDeletedLiteralOnly(tags, existing) ==
    \A t \in {u \in tags : StartsWithBranch(u)} : StripBranchPrefix(t) \notin existing

areAllBranchesDeleted(tags, existing) ==
    LET branchTags == {t \in tags : StartsWithBranch(t)} IN
    IF branchTags = {} THEN TRUE
    ELSE \A t \in branchTags :
            LET branchName == StripBranchPrefix(t) IN
            ~(branchName \in existing \/ RestoreSlashes(branchName) \in existing)

\* a direct call of areAllBranchesDeleted
CallAreAllBranchesDeleted ==
    /\ ~verdict.returned
    /\ verdict' = [returned |-> TRUE, value |-> areAllBranchesDeleted(probe.tags, probe.existing)]
    /\ UNCHANGED <<regVars, envVars, inputVars, publishVars, cleanupVars, probe, pc, idx, faults>>

\* the age floor comparing milliseconds with days
YoungerThanMinAgeNoConversion(ageMs, minDays) == ageMs < minDays

\* ageMs < minAgeMs, with minAgeMs = minAgeDays * 24 * 60 * 60 * 1000
YoungerThanMinAge(ageMs, minDays) == ageMs < minDays * DayMs

\* ageDays = ageMs / (24 * 60 * 60 * 1000), kept as a fraction
AgeDays(ageMs) == [num |-> ageMs, den |-> DayMs]
FractionLess(x, y) == IF x.den = y.den THEN x.num < y.num ELSE x.num * y.den < y.num * x.den

\* the candidates loop without the branch check
CandidatesByAgeOnly(pvs, existing, nowMs, minDays) ==
    LET aged == [i \in 1..Len(pvs) |->
                    [version |-> pvs[i].version, tags |-> pvs[i].tags,
                     publishedAt |-> pvs[i].publishedAt,
                     ageMs |-> nowMs - pvs[i].publishedAt,
                     ageDays |-> AgeDays(nowMs - pvs[i].publishedAt)]]
        Keep(c) == ~YoungerThanMinAge(c.ageMs, minDays)
    IN SelectSeq(aged, Keep)

\* the candidates loop: the versions past the age floor whose branches are all
\* deleted, in the order of the listing
Candidates(pvs, existing, nowMs, minDays) ==
    LET aged == [i \in 1..Len(pvs) |->
                    [version |-> pvs[i].version, tags |-> pvs[i].tags,
                     publishedAt |-> pvs[i].publishedAt,
                     ageMs |-> nowMs - pvs[i].publishedAt,
                     ageDays |-> AgeDays(nowMs - pvs[i].publishedAt)]]
        Keep(c) == /\ ~YoungerThanMinAge(c.ageMs, minDays)
                   /\ areAllBranchesDeleted(c.tags, existing)
    IN SelectSeq(aged, Keep)

\* the candidates left in the order of the listing
NotSorted(s) == s

\* candidates.sort((a, b) => b.ageDays - a.ageDays): stable, oldest first
RECURSIVE InsertByAge(_, _)
InsertByAge(s, x) ==
    IF s = <<>> THEN <<x>>
    ELSE IF FractionLess(Head(s).ageDays, x.ageDays) THEN <<x>> \o s
    ELSE <<Head(s)>> \o InsertByAge(Tail(s), x)

RECURSIVE SortOldestFirst(_)
SortOldestFirst(s) ==
    IF s = <<>> THEN <<>>
    ELSE InsertByAge(SortOldestFirst(SubSeq(s, 1, Len(s) - 1)), s[Len(s)])

\* previewVersions.length < maxVersions
UnderLimit(n, maxV) == n < maxV

\* toDelete without the extra slot
ToDeleteDownToCeiling(n, maxV) == n - maxV

\* toDelete = previewVersions.length - maxVersions + 1
ToDelete(n, maxV) == n - maxV + 1

\* candidates.slice(0, Math.max(toDelete, 0))
SliceDeletions(sorted, toDelete) == SubSeq(sorted, 1, Min(Len(sorted), Max(toDelete, 0)))

\* the for loop's body without the ceiling: every candidate is deleted
DecideNoCeiling(pvs, existing, nowMs, maxV, minDays) ==
    LET sorted == SortOldestFirst(Candidates(pvs, existing, nowMs, minDays)) IN
    [listed |-> pvs, under |-> FALSE, candidates |-> sorted, selected |-> sorted]

\* the body of the for loop up to the deletions, for one listing
Decide(pvs, existing, nowMs, maxV, minDays) ==
    IF UnderLimit(Len(pvs), maxV)
    THEN [listed |-> pvs, under |-> TRUE, candidates |-> <<>>, selected |-> <<>>]
    ELSE LET sorted == SortOldestFirst(Candidates(pvs, existing, nowMs, minDays)) IN
         [listed |-> pvs, under |-> FALSE, candidates |-> sorted,
          selected |-> SliceDeletions(sorted, ToDelete(Len(pvs), maxV))]

\* octokit.paginate(listBranches): the branches, or a failure
ListBranches == {[ok |-> TRUE, names |-> liveBranches]} \cup
                (IF faults < MaxFaults THEN {[ok |-> FALSE, names |-> {}]} ELSE {})

\* getAllBranches: the names listed, or the empty set when listing failed
getAllBranches(res) == IF res.ok THEN res.names ELSE {}

\* npm view <p> versions time dist-tags: the listing, E404 for a package the
\* registry does not know, or a failure
ListVersions(p) == {IF registry[p] # <<>> THEN Ok ELSE Err(MsgNotFound)} \cup Fault

\* the for loop moves to the next package, or cleanup returns and run()
\* goes on to publish
NextPackage(r) ==
    IF idx[r] < Len(versions[r])
    THEN /\ idx' = [idx EXCEPT ![r] = @ + 1]
         /\ pc' = [pc EXCEPT ![r] = "getPreviewVersions"]
    ELSE /\ idx' = [idx EXCEPT ![r] = 1]
         /\ pc' = [pc EXCEPT ![r] = "versionExists"]

\* cleanupOldVersions: existingBranches = await getAllBranches(); now = new Date()
GetAllBranches(r) ==
    /\ pc[r] = "getAllBranches"
    /\ \E res \in ListBranches :
        /\ existingBranches' = [existingBranches EXCEPT ![r] = getAllBranches(res)]
        /\ branchListFailed' = [branchListFailed EXCEPT ![r] = ~res.ok]
        /\ faults' = IF res.ok THEN faults ELSE faults + 1
    /\ now' = [now EXCEPT ![r] = clock]
    /\ pc' = [pc EXCEPT ![r] = "getPreviewVersions"]
    /\ UNCHANGED <<regVars, envVars, inputVars, probeVars, publishVars, idx, deletions, decisions, log>>

\* cleanupOldVersions, one package: list its preview versions, return early
\* when under the limit, else find, sort and slice the candidates
GetPreviewVersions(r) ==
    /\ pc[r] = "getPreviewVersions"
    /\ LET p == CurrentPkg(r).name IN
       \E out \in ListVersions(p) :
        LET pvs == previewVersionsOrNone(out, p, clock)
            d == Decide(pvs, existingBranches[r], now[r], maxVersions[r], minAgeDays[r])
        IN /\ CountFault(out)
           /\ decisions' = [decisions EXCEPT ![r][p] = Append(@, [listing |-> out] @@ d)]
           /\ deletions' = [deletions EXCEPT ![r] = d.selected]
           /\ IF d.selected # <<>>
              THEN /\ pc' = [pc EXCEPT ![r] = "deleteVersion"]
                   /\ UNCHANGED idx
              ELSE NextPackage(r)
    /\ UNCHANGED <<regVars, envVars, inputVars, probeVars, publishVars, existingBranches, now,
                   branchListFailed, log>>

\* the packages API: the version's id is found and the version deleted, or it
\* is not found, or the call fails
DeleteResults(p, v) == {IF VersionInRegistry(p, v) THEN "deleted" ELSE "notFound"} \cup
                       (IF faults < MaxFaults THEN {"error"} ELSE {})

\* the registry without version v of package p, and without its tags
RemoveVersion(p, v) ==
    /\ registry' = [registry EXCEPT ![p] = SelectSeq(@, LAMBDA e : e.version # v)]
    /\ distTags' = [distTags EXCEPT ![p] = [t \in AllTags |-> IF @[t] = v THEN NoVersion ELSE @[t]]]

\* the loop giving up the package's deletions at the first one that fails
RemainingAbortOnFailure(res, rest) == IF res = "deleted" THEN rest ELSE <<>>

\* what is left of the for loop after a deleteVersion call: deleteVersion
\* catches every error and returns, so the loop goes on with the rest
RemainingDeletions(res, rest) == rest

\* cleanupOldVersions: for (const v of deletions) await deleteVersion(...)
DeleteVersion(r) ==
    /\ pc[r] = "deleteVersion"
    /\ LET p == CurrentPkg(r).name
           c == Head(deletions[r])
       IN \E res \in DeleteResults(p, c.version) :
            /\ IF res = "deleted" THEN RemoveVersion(p, c.version) ELSE UNCHANGED regVars
            /\ faults' = IF res = "error" THEN faults + 1 ELSE faults
            /\ log' = [log EXCEPT ![r] = Append(@,
                    [name |-> p, version |-> c.version, tags |-> c.tags,
                     ageMs |-> c.ageMs, result |-> res,
                     tagsNow |-> TagsOfVersion(p, c.version)])]
            /\ deletions' = [deletions EXCEPT ![r] = RemainingDeletions(res, Tail(@))]
            /\ IF RemainingDeletions(res, Tail(deletions[r])) # <<>>
               THEN UNCHANGED <<pc, idx>>
               ELSE NextPackage(r)
    /\ UNCHANGED <<envVars, inputVars, probeVars, publishVars, existingBranches, now,
                   branchListFailed, decisions>>

CleanupStep(r) ==
    \/ GetAllBranches(r)
    \/ GetPreviewVersions(r)
    \/ DeleteVersion(r)

\* ------------------------------------------------------- common to Init
\* the PackageInfo list of discoverPackages
PackageInfo(name, path, version, dist) ==
    [name |-> name, path |-> path, version |-> version, dist |-> dist]
PackagePaths == <<<<"a">>, <<"b">>>>
\* the packages, the first with the given declared version and dist folder
PackagesWith(version, dist, otherDist) ==
    [i \in 1..Len(Packages) |->
        IF i = 1 THEN PackageInfo(Packages[i], PackagePaths[i], version, dist)
        ELSE PackageInfo(Packages[i], PackagePaths[i], DeclaredVersion, otherDist)]
DefaultPackages == PackagesWith(DeclaredVersion, Dist(<<>>), Dist(<<>>))

\* an empty registry and repository
EmptyRegistry ==
    /\ registry = [p \in PackageNames |-> <<>>]
    /\ distTags = [p \in PackageNames |-> NoTags]
    /\ clock = 0
    /\ liveBranches = {}

\* the locals and the history of runs that have done nothing yet
FreshRuns ==
    /\ manifest = [r \in Runs |-> [p \in PackageNames |-> DeclaredVersion]]
    /\ idx = [r \in Runs |-> 1]
    /\ originalVersion = [r \in Runs |-> NoVersion]
    /\ published = [r \in Runs |-> <<>>]
    /\ existingBranches = [r \in Runs |-> {}]
    /\ now = [r \in Runs |-> 0]
    /\ deletions = [r \in Runs |-> <<>>]
    /\ faults = 0
    /\ conflicted = [r \in Runs |-> {}]
    /\ startedAfter = [r \in Runs |-> {}]
    /\ checkFailed = [r \in Runs |-> {}]
    /\ branchListFailed = [r \in Runs |-> FALSE]
    /\ decisions = [r \in Runs |-> [p \in PackageNames |-> <<>>]]
    /\ log = [r \in Runs |-> <<>>]

SetsUpTo2(S) == {{x, y} : x \in S, y \in S} \cup {{}}

\* no direct call of areAllBranchesDeleted is made
NoProbe ==
    /\ probe = [tags |-> {}, existing |-> {}]
    /\ verdict = [returned |-> TRUE, value |-> TRUE]

\* ------------------------------------------- two runs publishing, racing
VersionInfoOf(p, h, b) ==
    [name |-> p, previewVersion |-> previewVersionOf(h), branchTag |-> branchTagOf(b),
     currentVersion |-> DeclaredVersion]

\* content hashes are numbered; 0 is content no earlier run has published
PublishHashes == {1, 2}

InitPublish ==
    /\ registry = [p \in PackageNames |-> <<>>]
    /\ distTags = [p \in PackageNames |-> NoTags]
    /\ clock = 0
    /\ liveBranches = {}
    \* every branch name, against the same name and every name of one character
    /\ \E b1 \in BranchPool : \E b2 \in {b1} \cup SeqsUpTo(Chars, 1) :
        branch = [r \in Runs |-> IF r = "r1" THEN b1 ELSE b2]
    /\ \E h \in [Runs -> [PackageNames -> PublishHashes]] :
        \* the hashes are interchangeable: the first run's content is 1
        /\ \A p \in PackageNames : h["r1"][p] = 1
        /\ versions = [r \in Runs |->
            [i \in 1..Len(Packages) |-> VersionInfoOf(Packages[i], h[r][Packages[i]], branch[r])]]
    /\ maxVersions = [r \in Runs |-> MaxHist]
    /\ minAgeDays = [r \in Runs |-> 0]
    /\ manifest = [r \in Runs |-> [p \in PackageNames |-> DeclaredVersion]]
    /\ pc = [r \in Runs |-> "versionExists"]
    /\ idx = [r \in Runs |-> 1]
    /\ originalVersion = [r \in Runs |-> NoVersion]
    /\ published = [r \in Runs |-> <<>>]
    /\ existingBranches = [r \in Runs |-> {}]
    /\ now = [r \in Runs |-> 0]
    /\ deletions = [r \in Runs |-> <<>>]
    /\ faults = 0
    /\ conflicted = [r \in Runs |-> {}]
    /\ startedAfter = [r \in Runs |-> {}]
    /\ checkFailed = [r \in Runs |-> {}]
    /\ branchListFailed = [r \in Runs |-> FALSE]
    /\ decisions = [r \in Runs |-> [p \in PackageNames |-> <<>>]]
    /\ log = [r \in Runs |-> <<>>]
    /\ packages = [r \in Runs |-> DefaultPackages]
    /\ NoProbe

NextPublish == \E r \in Runs : PublishStep(r)

SpecPublish == InitPublish /\ [][NextPublish]_vars

\* ------------------------------------------------- publish: the claims
ResultsFor(r, p) == {published[r][i] : i \in {j \in 1..Len(published[r]) : published[r][j].name = p}}
Processed(r, p) == ResultsFor(r, p) # {}
VersionOfRun(r, p) == LET i == CHOOSE j \in 1..Len(versions[r]) : versions[r][j].name = p
                      IN versions[r][i].previewVersion
TagOfRun(r) == versions[r][1].branchTag
EntriesOf(p, v) == {i \in 1..Len(registry[p]) : registry[p][i].version = v}
TagsOn(p, v) == {t \in AllTags : distTags[p][t] = v}
SameVersion(p) == VersionOfRun("r1", p) = VersionOfRun("r2", p)

\* C1: two runs for different branches publish the same previewVersion of a
\* package; with a registry that answers every call, in every interleaving
\* neither run fails, and once both have processed the package the registry
\* holds exactly one entry for the version, carrying both runs' branch tags.
C1_RaceConverges ==
    \A p \in PackageNames :
        (faults = 0 /\ branch["r1"] # branch["r2"] /\ SameVersion(p)) =>
            /\ \A r \in Runs : pc[r] # "failed"
            /\ (\A r \in Runs : Processed(r, p)) =>
                /\ Cardinality(EntriesOf(p, VersionOfRun("r1", p))) = 1
                /\ \A r \in Runs : distTags[p][TagOfRun(r)] = VersionOfRun("r1", p)

\* both runs found the version absent, one of them then met the conflict
C1_Witness ==
    /\ faults = 0 /\ branch["r1"] # branch["r2"] /\ TagOfRun("r1") # TagOfRun("r2")
    /\ SameVersion("pa")
    /\ "pa" \in conflicted["r1"] \cup conflicted["r2"]
    /\ \A r \in Runs : pc[r] = "done"

\* C2: the second of two calls in sequence for the same package and
\* previewVersion, with a registry that answers every call: the first reported
\* isNew = true, the second isNew = false, and the registry holds one entry for
\* the version whose branch tags are exactly the tags of the two calls.
C2_SequentialIdempotent ==
    \A p \in PackageNames : \A r1 \in Runs : \A r2 \in Runs \ {r1} :
        (faults = 0 /\ r1 \in startedAfter[r2] /\ SameVersion(p) /\ Processed(r2, p)) =>
            /\ \A e \in ResultsFor(r1, p) : e.isNew
            /\ \A e \in ResultsFor(r2, p) : ~e.isNew
            /\ Cardinality(EntriesOf(p, VersionOfRun(r1, p))) = 1
            /\ TagsOn(p, VersionOfRun(r1, p)) = {TagOfRun(r1), TagOfRun(r2)}

\* the second call came after the first had returned, with another branch
C2_Witness ==
    /\ faults = 0 /\ "r1" \in startedAfter["r2"] /\ SameVersion("pa")
    /\ TagOfRun("r1") # TagOfRun("r2")
    /\ Cardinality(TagsOn("pa", VersionOfRun("r1", "pa"))) = 2
    /\ pc["r2"] = "done"

\* the second call came after the first had returned, with the same branch tag
C2_WitnessSameTag ==
    /\ faults = 0 /\ "r1" \in startedAfter["r2"] /\ SameVersion("pa")
    /\ TagOfRun("r1") = TagOfRun("r2")
    /\ pc["r2"] = "done"

\* C3: a result reports isNew = true only if this run's publish created the
\* version: a package whose publish answered with a conflict is reported with
\* isNew = false.
C3_IsNewOnlyIfCreated ==
    \A r \in Runs : \A p \in conflicted[r] : \A e \in ResultsFor(r, p) : ~e.isNew

\* C4: wherever publishPackage is not between its write of package.json and
\* its restore, the manifest's version is the one it had before the call.
C4_ManifestRestored ==
    \A r \in Runs : \A p \in PackageNames :
        (pc[r] \notin {"npmPublish", "restoreManifest", "conflictRestore", "errorRestore"})
            => manifest[r][p] = DeclaredVersion

\* C19: a failure that concerns one package does not abort the run for its
\* siblings: in a run that met a failure, every other package is processed.
C19_SiblingsProcessed ==
    \A r \in Runs :
        pc[r] = "failed" => \A p \in PackageNames \ {CurrentPkg(r).name} : Processed(r, p)

\* C26: on the conflict path publishPackage has written the original version
\* back to the manifest when it calls addDistTag; when that call fails the run
\* fails, no result is pushed for the package, and the manifest holds the
\* original version.
C26_ConflictRestoresFirst ==
    \A r \in Runs :
        /\ pc[r] = "conflictAddDistTag" =>
                manifest[r][CurrentPkg(r).name] = DeclaredVersion
        /\ (pc[r] = "failed" /\ CurrentPkg(r).name \in conflicted[r]) =>
                /\ manifest[r][CurrentPkg(r).name] = DeclaredVersion
                /\ ~Processed(r, CurrentPkg(r).name)

\* a run lost the race for a version, restored its manifest, and its
\* dist-tag call failed: the run has failed with the manifest restored
C26_Witness ==
    /\ pc["r2"] = "failed"
    /\ CurrentPkg("r2").name \in conflicted["r2"]
    /\ faults = 1
    /\ VersionInRegistry(CurrentPkg("r2").name, CurrentPkg("r2").previewVersion)
    /\ distTags[CurrentPkg("r2").name][TagOfRun("r2")] # CurrentPkg("r2").previewVersion
    /\ manifest["r2"][CurrentPkg("r2").name] = DeclaredVersion

\* no call failed with an unrelated error but existence checks
OnlyChecksFailed ==
    faults = Cardinality(checkFailed["r1"]) + Cardinality(checkFailed["r2"])
\* run r's branch tag points at its version of p, or a run of the same branch
\* has moved it to its own, different version
TagAttached(r, p) ==
    \/ distTags[p][TagOfRun(r)] = VersionOfRun(r, p)
    \/ \E q \in Runs \ {r} :
        /\ TagOfRun(q) = TagOfRun(r) /\ VersionOfRun(q, p) # VersionOfRun(r, p)
        /\ distTags[p][TagOfRun(r)] = VersionOfRun(q, p)
\* the version of p that run r publishes was created by another run
CreatedByAnother(r, p) ==
    \E i \in 1..Len(registry[p]) :
        registry[p][i].version = VersionOfRun(r, p) /\ registry[p][i].by # r

\* C30: when the existence check of a package fails with an error other than
\* "not found", the run goes on to publish; with no other call failing the
\* run does not fail, and once the package is processed its version is in
\* the registry with the run's branch tag attached, through the conflict path
\* when another run had created the version.
C30_FailedCheckStillTags ==
    \A r \in Runs : \A p \in checkFailed[r] :
        /\ pc[r] # "addDistTag" \/ CurrentPkg(r).name # p
        /\ OnlyChecksFailed =>
            /\ pc[r] # "failed"
            /\ Processed(r, p) =>
                /\ VersionInRegistry(p, VersionOfRun(r, p))
                /\ TagAttached(r, p)
                /\ CreatedByAnother(r, p) => p \in conflicted[r]

\* the second run began after the first was done, with the same version; its
\* existence check failed, its publish met the conflict, and the version
\* carries its branch tag
C30_Witness ==
    /\ "r1" \in startedAfter["r2"] /\ SameVersion("pa")
    /\ TagOfRun("r1") # TagOfRun("r2")
    /\ "pa" \in checkFailed["r2"] /\ "pa" \in conflicted["r2"]
    /\ Processed("r2", "pa")
    /\ distTags["pa"][TagOfRun("r2")] = VersionOfRun("r2", "pa")
    /\ Cardinality(EntriesOf("pa", VersionOfRun("r2", "pa"))) = 1
    /\ pc["r2"] = "done"

\* ------------------------------------------------- one run cleaning up
\* a history of n preview versions, hashes first..first+n-1 in the order of the
\* listing, published ages[i] half days before time t
HistoryOf(first, ages, t) ==
    [i \in 1..Len(ages) |->
        [version |-> previewVersionOf(first + i - 1), time |-> t - ages[i] * HalfDayMs,
         by |-> "earlier"]]

AgeLists(n) == [1..n -> 0..MaxAgeSteps]

\* the dist-tags of the registry: at most MaxTags tags, each on one version
TagSlots(reg) == {<<p, t, i>> \in PackageNames \X AllTags \X (1..MaxHist) : i <= Len(reg[p])}

RECURSIVE TagPlacementsUpTo(_, _)
TagPlacementsUpTo(reg, k) ==
    IF k = 0 THEN {{}}
    ELSE LET less == TagPlacementsUpTo(reg, k - 1) IN
         less \cup UNION {{S \cup {s} :
                            s \in {x \in TagSlots(reg) : \A y \in S : ~(x[1] = y[1] /\ x[2] = y[2])}} :
                          S \in less}

TagsFrom(reg, S) ==
    [p \in PackageNames |-> [t \in AllTags |->
        IF \E s \in S : s[1] = p /\ s[2] = t
        THEN reg[p][(CHOOSE s \in S : s[1] = p /\ s[2] = t)[3]].version
        ELSE NoVersion]]

\* a registry of at most MaxHist versions, at most one of them of the second
\* package, published up to MaxAgeSteps half days ago, with at most MaxTags
\* dist-tags; at most one live branch; every max-versions and min-age-days
DrawnScenario ==
    /\ clock = MaxAgeSteps * HalfDayMs
    /\ \E na \in 0..MaxHist : \E nb \in 0..Min(1, MaxHist - na) :
       \E aa \in AgeLists(na) : \E ab \in AgeLists(nb) :
        /\ registry = [p \in PackageNames |->
                IF p = "pa" THEN HistoryOf(1, aa, clock) ELSE HistoryOf(1, ab, clock)]
        /\ \E S \in TagPlacementsUpTo(registry, MaxTags) : distTags = TagsFrom(registry, S)
    /\ liveBranches \in {L \in SUBSET BranchPool : Cardinality(L) <= 1}
    /\ \E mv \in MaxVersionsInputs : maxVersions = [r \in Runs |-> mv]
    /\ \E md \in MinAgeDaysInputs : minAgeDays = [r \in Runs |-> md]

\* max-versions = 5 and a package with 8 preview versions without tags, the
\* i-th published 8 + i half days ago, min-age-days = 2, no live branch
QuotaScenario ==
    /\ clock = 24 * HalfDayMs
    /\ registry = [p \in PackageNames |->
            IF p = "pa" THEN HistoryOf(1, [i \in 1..8 |-> 8 + i], clock) ELSE <<>>]
    /\ distTags = [p \in PackageNames |-> NoTags]
    /\ liveBranches = {}
    /\ maxVersions = [r \in Runs |-> 5]
    /\ minAgeDays = [r \in Runs |-> 2]

InitCleanup ==
    /\ DrawnScenario \/ QuotaScenario
    /\ branch = [r \in Runs |-> <<"a">>]
    /\ versions = [r \in Runs |->
            [i \in 1..Len(Packages) |-> VersionInfoOf(Packages[i], 0, branch[r])]]
    /\ manifest = [r \in Runs |-> [p \in PackageNames |-> DeclaredVersion]]
    /\ pc = [r \in Runs |-> IF r = "r1" THEN "getAllBranches" ELSE "idle"]
    /\ idx = [r \in Runs |-> 1]
    /\ originalVersion = [r \in Runs |-> NoVersion]
    /\ published = [r \in Runs |-> <<>>]
    /\ existingBranches = [r \in Runs |-> {}]
    /\ now = [r \in Runs |-> 0]
    /\ deletions = [r \in Runs |-> <<>>]
    /\ faults = 0
    /\ conflicted = [r \in Runs |-> {}]
    /\ startedAfter = [r \in Runs |-> {}]
    /\ checkFailed = [r \in Runs |-> {}]
    /\ branchListFailed = [r \in Runs |-> FALSE]
    /\ decisions = [r \in Runs |-> [p \in PackageNames |-> <<>>]]
    /\ log = [r \in Runs |-> <<>>]
    /\ packages = [r \in Runs |-> DefaultPackages]
    /\ NoProbe

NextCleanup == \E r \in Runs : CleanupStep(r)

SpecCleanup == InitCleanup /\ [][NextCleanup]_vars

\* ------------------------------------------------- cleanup: the claims
DecisionsOf(r, p) == {decisions[r][p][k] : k \in 1..Len(decisions[r][p])}
Listed(d) == {d.listed[i] : i \in 1..Len(d.listed)}
SelectedVersions(d) == {d.selected[k].version : k \in 1..Len(d.selected)}
LogOf(r, p) == SelectSeq(log[r], LAMBDA e : e.name = p)
CleanupReturned(r) == pc[r] = "versionExists"

\* the age of a listed version when the run decides, in ms
AgeAtDecision(r, e) == now[r] - e.publishedAt
PastAgeFloor(r, e) == AgeAtDecision(r, e) >= minAgeDays[r] * DayMs
\* a deletion candidate: past the age floor, every branch tag judged dead
IsCandidate(r, e) == PastAgeFloor(r, e) /\ areAllBranchesDeleted(e.tags, existingBranches[r])
CandidatesOf(r, d) == {e \in Listed(d) : IsCandidate(r, e)}
Quota(r, d) == Max(0, Len(d.listed) - maxVersions[r] + 1)

\* C5: with the branches listed accurately, no version selected for deletion
\* carries the tag branch-<sanitize(b)> of a live branch b.
C5_LiveBranchNeverSelected ==
    \A r \in Runs : \A p \in PackageNames : \A d \in DecisionsOf(r, p) :
        (~branchListFailed[r] /\ existingBranches[r] = liveBranches) =>
            \A k \in 1..Len(d.selected) : \A b \in liveBranches :
                branchTagOf(b) \notin d.selected[k].tags

\* C6: a run whose branch listing failed issues no deletion.
C6_NoDeletionWhenListingFailed ==
    \A r \in Runs : branchListFailed[r] => log[r] = <<>>

\* C7: a listed version younger than minAgeDays when the run decides is not
\* selected, whatever its tags and the ceiling; a version without tags whose
\* age is exactly minAgeDays is a candidate of a package at its ceiling.
C7_AgeFloor ==
    \A r \in Runs : \A p \in PackageNames : \A d \in DecisionsOf(r, p) : \A e \in Listed(d) :
        /\ AgeAtDecision(r, e) < minAgeDays[r] * DayMs => e.version \notin SelectedVersions(d)
        /\ (AgeAtDecision(r, e) = minAgeDays[r] * DayMs /\ e.tags = {}
                /\ Len(d.listed) >= maxVersions[r])
            => \E k \in 1..Len(d.candidates) : d.candidates[k].version = e.version

\* a package over its ceiling whose only deletable version is younger than the
\* floor and tagged with a branch that is gone; the run deleted nothing of it
C7_Witness ==
    /\ CleanupReturned("r1") /\ ~branchListFailed["r1"]
    /\ minAgeDays["r1"] > 0
    /\ \E d \in DecisionsOf("r1", "pa") :
        /\ Len(d.listed) > maxVersions["r1"]
        /\ \E e \in Listed(d) :
            /\ AgeAtDecision("r1", e) < minAgeDays["r1"] * DayMs
            /\ AgeAtDecision("r1", e) > 0
            /\ e.tags # {}
            /\ \A t \in e.tags : StartsWithBranch(t) /\ \A b \in liveBranches : branchTagOf(b) # t
        /\ \E e \in Listed(d) : AgeAtDecision("r1", e) = minAgeDays["r1"] * DayMs
                                    /\ e.version \in SelectedVersions(d)

\* C8: a package whose listing has fewer than maxVersions entries: nothing is
\* selected and no deletion is issued for it.
C8_UnderLimitDeletesNothing ==
    \A r \in Runs : \A p \in PackageNames : \A d \in DecisionsOf(r, p) :
        Len(d.listed) < maxVersions[r] => (d.selected = <<>> /\ LogOf(r, p) = <<>>)

\* a package under its ceiling that holds a version without tags past the floor
C8_Witness ==
    /\ CleanupReturned("r1")
    /\ \E d \in DecisionsOf("r1", "pa") :
        /\ d.listed # <<>>
        /\ Len(d.listed) < maxVersions["r1"]
        /\ \E e \in Listed(d) : e.tags = {} /\ PastAgeFloor("r1", e) /\ AgeAtDecision("r1", e) > 0

\* C9: for a package with n >= maxVersions listed versions of which c are
\* candidates, min(c, max(0, n - maxVersions + 1)) versions are selected; when
\* cleanup has returned and every deletion succeeded, n minus that many
\* versions remain, at least maxVersions - 1.
C9_Quota ==
    \A r \in Runs : \A p \in PackageNames : \A d \in DecisionsOf(r, p) :
        Len(d.listed) >= maxVersions[r] =>
            /\ Len(d.selected) = Min(Cardinality(CandidatesOf(r, d)), Quota(r, d))
            /\ Cardinality(SelectedVersions(d)) = Len(d.selected)
            /\ (CleanupReturned(r) /\ \A k \in 1..Len(log[r]) : log[r][k].result = "deleted") =>
                /\ Len(registry[p]) = Len(d.listed) - Len(d.selected)
                /\ Len(registry[p]) >= maxVersions[r] - 1

\* maxVersions = 5 and 8 candidates: 4 were selected and deleted
C9_Witness ==
    /\ CleanupReturned("r1") /\ maxVersions["r1"] = 5
    /\ \E d \in DecisionsOf("r1", "pa") :
        /\ Len(d.listed) = 8 /\ Cardinality(CandidatesOf("r1", d)) = 8
        /\ Len(d.selected) = 4
    /\ Len(registry["pa"]) = 4

\* fewer candidates than the quota: only the candidates were selected
C9_WitnessFewCandidates ==
    /\ CleanupReturned("r1")
    /\ \E d \in DecisionsOf("r1", "pa") :
        /\ Len(d.listed) >= maxVersions["r1"]
        /\ Cardinality(CandidatesOf("r1", d)) < Quota("r1", d)
        /\ Len(d.selected) = 1

\* C10: every selected candidate is at least as old as every candidate that was
\* not selected, and the deletions of a package are issued oldest first.
C10_OldestFirst ==
    \A r \in Runs : \A p \in PackageNames : \A d \in DecisionsOf(r, p) :
        /\ \A e \in CandidatesOf(r, d) : \A f \in CandidatesOf(r, d) :
            (~d.under /\ e.version \in SelectedVersions(d) /\ f.version \notin SelectedVersions(d))
                => AgeAtDecision(r, e) >= AgeAtDecision(r, f)
        /\ \A k \in 1..Len(LogOf(r, p)) : \A l \in 1..Len(LogOf(r, p)) :
            \A e \in Listed(d) : \A f \in Listed(d) :
                (k < l /\ e.version = LogOf(r, p)[k].version /\ f.version = LogOf(r, p)[l].version)
                    => AgeAtDecision(r, e) >= AgeAtDecision(r, f)

\* three candidates listed youngest first, two of them deleted
C10_Witness ==
    /\ CleanupReturned("r1")
    /\ \E d \in DecisionsOf("r1", "pa") :
        /\ Len(d.listed) = 3 /\ Cardinality(CandidatesOf("r1", d)) = 3
        /\ AgeAtDecision("r1", d.listed[1]) < AgeAtDecision("r1", d.listed[2])
        /\ AgeAtDecision("r1", d.listed[2]) < AgeAtDecision("r1", d.listed[3])
        /\ Len(d.selected) = 2
    /\ Len(LogOf("r1", "pa")) = 2

\* the versions of the deletion candidates of a decision
CandidateVersions(r, d) == {e.version : e \in CandidatesOf(r, d)}

\* C25: every version selected and every version a deleteVersion call is
\* issued for is a deletion candidate of its package's listing (past the age
\* floor, every branch tag judged dead); when there are fewer candidates
\* than the quota n - maxVersions + 1, exactly the candidates are selected.
C25_OnlyCandidatesDeleted ==
    \A r \in Runs : \A p \in PackageNames : \A d \in DecisionsOf(r, p) :
        /\ SelectedVersions(d) \subseteq CandidateVersions(r, d)
        /\ \A k \in 1..Len(LogOf(r, p)) : LogOf(r, p)[k].version \in CandidateVersions(r, d)
        /\ (~d.under /\ Cardinality(CandidatesOf(r, d)) < Quota(r, d))
                => SelectedVersions(d) = CandidateVersions(r, d)

\* a package over its ceiling with fewer candidates than the quota and an older
\* version that is no candidate: the candidates were deleted, the older
\* version was not selected
C25_Witness ==
    /\ CleanupReturned("r1")
    /\ \E d \in DecisionsOf("r1", "pa") :
        /\ Len(d.listed) > maxVersions["r1"]
        /\ Cardinality(CandidatesOf("r1", d)) < Quota("r1", d)
        /\ Len(LogOf("r1", "pa")) = Cardinality(CandidatesOf("r1", d))
        /\ \E e \in Listed(d) : \E f \in CandidatesOf("r1", d) :
            /\ ~IsCandidate("r1", e)
            /\ PastAgeFloor("r1", e)
            /\ AgeAtDecision("r1", e) > AgeAtDecision("r1", f)
            /\ e.version \notin SelectedVersions(d)
            /\ f.version \in SelectedVersions(d)

\* the versions of a sequence of candidates or of log entries
VersionsOf(q) == [k \in 1..Len(q) |-> q[k].version]

\* C20: a deleteVersion call that fails does not end the run or the loop:
\* while a package's deletions are issued, the calls made and the calls still
\* to make are together the selected versions, and when cleanup has returned
\* every package was decided once and a call was made for every selected
\* version of every package, in order.
C20_DeletionFailuresIsolated ==
    \A r \in Runs :
        /\ pc[r] # "failed"
        /\ pc[r] = "deleteVersion" =>
            LET p == CurrentPkg(r).name IN
            VersionsOf(LogOf(r, p)) \o VersionsOf(deletions[r])
                = VersionsOf(decisions[r][p][Len(decisions[r][p])].selected)
        /\ CleanupReturned(r) => \A p \in PackageNames :
            /\ Len(decisions[r][p]) = 1
            /\ VersionsOf(LogOf(r, p)) = VersionsOf(decisions[r][p][1].selected)

\* the first deletion of the first package failed, the second was made, and
\* the second package was cleaned up too
C20_Witness ==
    /\ CleanupReturned("r1")
    /\ Len(LogOf("r1", "pa")) >= 2
    /\ LogOf("r1", "pa")[1].result = "error"
    /\ LogOf("r1", "pa")[2].result = "deleted"
    /\ Len(LogOf("r1", "pb")) = 1

\* C12: versions of a package are deleted only if the package has more than
\* maxVersions preview versions; with exactly maxVersions preview versions
\* nothing is selected and no deletion is issued.
C12_DeletesOnlyOverLimit ==
    \A r \in Runs : \A p \in PackageNames : \A d \in DecisionsOf(r, p) :
        Len(d.listed) <= maxVersions[r] => (d.selected = <<>> /\ LogOf(r, p) = <<>>)

\* ------------------------------------- runs one after the other, whole
\* the workflow starts a run once the runs before it have ended; run() has
\* discovered the packages and computed the versions
StartRun(r) ==
    /\ pc[r] = "idle"
    /\ \A q \in Runs \ {r} : pc[q] \in {"done", "failed"}
    /\ pc' = [pc EXCEPT ![r] = "getAllBranches"]
    /\ UNCHANGED <<regVars, envVars, inputVars, probeVars, publishVars, cleanupVars, idx, faults>>

\* the publish times of the history: just now, or MaxAgeSteps half days ago
RunAgeLists(n) == [1..n -> {0, MaxAgeSteps}]

\* the content of the second run: that of the first, or new
RunHashes == {0, MaxHist + 1}

\* a registry of at most MaxHist versions of the first package, each published
\* just now or MaxAgeSteps half days ago, with at most one dist-tag; at most
\* one live branch; every max-versions and min-age-days; the first run
\* publishes new content of both packages, the second the same or new content
InitRun ==
    /\ clock = MaxAgeSteps * HalfDayMs
    /\ \E na \in 0..MaxHist : \E aa \in RunAgeLists(na) :
        /\ registry = [p \in PackageNames |-> IF p = "pa" THEN HistoryOf(1, aa, clock) ELSE <<>>]
        /\ \E S \in TagPlacementsUpTo(registry, 1) : distTags = TagsFrom(registry, S)
    /\ liveBranches \in {L \in SUBSET BranchPool : Cardinality(L) <= 1}
    /\ \E mv \in MaxVersionsInputs : maxVersions = [r \in Runs |-> mv]
    /\ \E md \in MinAgeDaysInputs : minAgeDays = [r \in Runs |-> md]
    /\ branch = [r \in Runs |-> <<"a">>]
    /\ \E h \in RunHashes :
        versions = [r \in Runs |-> [i \in 1..Len(Packages) |->
            VersionInfoOf(Packages[i], IF r = "r1" THEN 0 ELSE h, branch[r])]]
    /\ pc = [r \in Runs |-> IF r = "r1" THEN "getAllBranches" ELSE "idle"]
    /\ FreshRuns
    /\ packages = [r \in Runs |-> DefaultPackages]
    /\ NoProbe

NextRun == \E r \in Runs : StartRun(r) \/ CleanupStep(r) \/ PublishStep(r)

SpecRun == InitRun /\ [][NextRun]_vars

\* --------------------------------------------------- whole runs: the claims
PreviewCount(p) == Len(SelectSeq(registry[p], IsPreviewVersion))
\* the order the runs are started in
RunOrder == <<"r1", "r2">>
\* run r has completed and no run has started since
LastCompleted(r) ==
    /\ pc[r] = "done"
    /\ \A i \in 1..Len(RunOrder) : \A j \in 1..Len(RunOrder) :
        (RunOrder[i] = r /\ i < j) => pc[RunOrder[j]] = "idle"
\* what the cleanup of run r decided for package p
DecisionOf(r, p) == decisions[r][p][1]
AllListedAreCandidates(r, p) ==
    Cardinality(CandidatesOf(r, DecisionOf(r, p))) = Len(DecisionOf(r, p).listed)
AllDeleted(r) == \A k \in 1..Len(log[r]) : log[r][k].result = "deleted"

ListingFailed(r, p) == \E d \in DecisionsOf(r, p) : ~d.listing.ok
\* the listings of run r that failed with an error other than "not found"
BrokenListings(r) == {p \in PackageNames : \E d \in DecisionsOf(r, p) : d.listing = Err(MsgOther)}
\* no call failed with an unrelated error but listings of versions
OnlyListingsFailed ==
    faults = Cardinality(BrokenListings("r1")) + Cardinality(BrokenListings("r2"))
\* where a run is while publishPackages runs
PublishPhase == {"versionExists", "addDistTag", "writeManifest", "npmPublish",
                 "restoreManifest", "conflictRestore", "conflictAddDistTag", "errorRestore"}

\* C21: when listing a package's versions fails, cleanup lists nothing and
\* deletes nothing for that package, goes on to decide every other package,
\* and the run goes on to publish: with no other call failing the run does not
\* fail, and when it is done every package has been published or tagged.
C21_ListingFailureSkipsPackage ==
    \A r \in Runs : \A p \in PackageNames :
        ListingFailed(r, p) =>
            /\ LogOf(r, p) = <<>>
            /\ \A d \in DecisionsOf(r, p) : d.listed = <<>> /\ d.selected = <<>>
            /\ pc[r] \in PublishPhase \cup {"done"} =>
                    \A q \in PackageNames : Len(decisions[r][q]) = 1
            /\ OnlyListingsFailed => pc[r] # "failed"
            /\ pc[r] = "done" => \A q \in PackageNames : Processed(r, q)

\* the listing of the first package failed with an unrelated error while the
\* package was at its ceiling; the run decided the second package, published
\* both and is done, and nothing of the first package was deleted
C21_Witness ==
    /\ "pa" \in BrokenListings("r1")
    /\ pc["r1"] = "done"
    /\ PreviewCount("pa") > maxVersions["r1"]
    /\ PreviewCount("pa") = MaxHist + 1
    /\ decisions["r1"]["pb"][1].listing = Err(MsgNotFound)
    /\ \A q \in PackageNames : Processed("r1", q)

\* run r has not published or tagged anything yet
NothingPublishedYet(r) ==
    /\ published[r] = <<>>
    /\ pc[r] \notin PublishPhase
    /\ \A p \in PackageNames : \A i \in 1..Len(registry[p]) : registry[p][i].by # r

\* C23: within a run cleanup comes before publishing and visits each package
\* once: every step of cleanup (a listing decided, a deleteVersion call)
\* is taken while the run has published and tagged nothing, and no package is
\* decided twice.
C23_CleanupBeforePublish ==
    [][\A r \in Runs :
        (log'[r] # log[r] \/ decisions'[r] # decisions[r]) =>
            /\ NothingPublishedYet(r)
            /\ \A p \in PackageNames : Len(decisions'[r][p]) <= 1]_vars

\* a run deleted a version, then published a new one, and is done
C23_Witness ==
    /\ pc["r1"] = "done"
    /\ \E k \in 1..Len(log["r1"]) : log["r1"][k].result = "deleted"
    /\ \E e \in ResultsFor("r1", "pa") : e.isNew
    /\ \A p \in PackageNames : Len(decisions["r1"][p]) = 1

\* run r's cleanup deleted version v of package p
DeletedByRun(r, p, v) ==
    \E k \in 1..Len(log[r]) :
        log[r][k].name = p /\ log[r][k].version = v /\ log[r][k].result = "deleted"

\* C24: after a run that completed, and before another run starts, every
\* package's previewVersion is in the registry and the run's branch tag
\* points at it, also when the run's own cleanup deleted that version before
\* it published.
C24_PublishedAndTagged ==
    \A r \in Runs : LastCompleted(r) => \A p \in PackageNames :
        /\ VersionInRegistry(p, VersionOfRun(r, p))
        /\ distTags[p][TagOfRun(r)] = VersionOfRun(r, p)

\* the second run deleted the version the first had published, which is its
\* own previewVersion, then published it again
C24_Witness ==
    /\ LastCompleted("r2")
    /\ DeletedByRun("r2", "pa", VersionOfRun("r2", "pa"))
    /\ \E i \in 1..Len(registry["pa"]) :
        registry["pa"][i].version = VersionOfRun("r2", "pa") /\ registry["pa"][i].by = "r2"
    /\ distTags["pa"][TagOfRun("r2")] = VersionOfRun("r2", "pa")

\* ------------------------- one run cleaning up a package with a mixed history
\* a history of release versions, preview versions and preview versions the
\* registry reports no publish time for
ReleaseVersion == <<BaseVersion>>
HistoryWith(ages, untimed, release, t) ==
    LET previews == [i \in 1..Len(ages) |->
            [version |-> previewVersionOf(i),
             time |-> IF i \in untimed THEN NoTime ELSE t - ages[i] * HalfDayMs,
             by |-> "earlier"]]
        rel == <<[version |-> ReleaseVersion, time |-> t - MaxAgeSteps * HalfDayMs,
                  by |-> "earlier"]>>
    IN CASE release = "first" -> rel \o previews
         [] release = "last" -> previews \o rel
         [] OTHER -> previews

\* time passes while cleanup runs
Tick ==
    /\ pc["r1"] \in {"getPreviewVersions", "deleteVersion"}
    /\ clock < (MaxAgeSteps + 1) * HalfDayMs
    /\ clock' = clock + HalfDayMs
    /\ UNCHANGED <<regVars, liveBranches, inputVars, probeVars, publishVars, cleanupVars,
                   pc, idx, faults>>

\* the run handles the first package only; the second has MaxHist old preview
\* versions without tags in the registry
InitHistory ==
    /\ clock = MaxAgeSteps * HalfDayMs
    /\ \E na \in 0..MaxHist : \E aa \in RunAgeLists(na) : \E un \in SUBSET (1..na) :
       \E rel \in {"none", "first", "last"} :
        /\ registry = [p \in PackageNames |->
                IF p = "pa" THEN HistoryWith(aa, un, rel, clock)
                ELSE HistoryOf(1, [i \in 1..MaxHist |-> MaxAgeSteps], clock)]
        /\ \E S \in TagPlacementsUpTo(registry, 1) :
            /\ \A s \in S : s[1] = "pa" /\ s[2] \in {<<"latest">>, branchTagOf(<<"a">>)}
            /\ distTags = TagsFrom(registry, S)
    /\ liveBranches = {<<"a">>}
    /\ \E mv \in MaxVersionsInputs : maxVersions = [r \in Runs |-> mv]
    /\ \E md \in MinAgeDaysInputs : minAgeDays = [r \in Runs |-> md]
    /\ branch = [r \in Runs |-> <<"a">>]
    /\ versions = [r \in Runs |-> <<VersionInfoOf("pa", 0, branch[r])>>]
    /\ packages = [r \in Runs |-> <<DefaultPackages[1]>>]
    /\ pc = [r \in Runs |-> IF r = "r1" THEN "getAllBranches" ELSE "idle"]
    /\ FreshRuns
    /\ NoProbe

NextHistory == Tick \/ \E r \in Runs : CleanupStep(r)

SpecHistory == InitHistory /\ [][NextHistory]_vars

\* ------------------------------------------------ mixed history: the claims
\* the packages of run r
RunPackages(r) == {versions[r][i].name : i \in 1..Len(versions[r])}
ContainsPreview(v) == \E i \in 1..Len(v) : v[i] = "-preview."
\* the release versions of package p in the registry
Releases(reg, p) == {reg[p][i] : i \in {j \in 1..Len(reg[p]) : ~ContainsPreview(reg[p][j].version)}}
DeletedCount(r, p) ==
    Cardinality({k \in 1..Len(log[r]) : log[r][k].name = p /\ log[r][k].result = "deleted"})

\* C28: cleanup lists, counts and deletes only versions that contain -preview.
\* and belong to a package of the run: every listed version and every version
\* a deletion is issued for is such a version, the length of the history the
\* ceiling is compared with is the number of preview versions listed, and no step
\* removes a release version or changes a package the run does not handle.
C28_OnlyOwnPreviewsDeleted ==
    /\ [](\A r \in Runs :
            /\ \A k \in 1..Len(log[r]) :
                ContainsPreview(log[r][k].version) /\ log[r][k].name \in RunPackages(r)
            /\ \A p \in PackageNames : \A d \in DecisionsOf(r, p) :
                /\ p \in RunPackages(r)
                /\ \A e \in Listed(d) : ContainsPreview(e.version)
                /\ d.listing.ok =>
                    Len(d.listed) + Cardinality(Releases(registry, p))
                        = Len(registry[p]) + DeletedCount(r, p)
                /\ d.under <=> Len(d.listed) < maxVersions[r])
    /\ [][\A p \in PackageNames :
            /\ Releases(registry', p) = Releases(registry, p)
            /\ (\A r \in Runs : p \notin RunPackages(r)) => registry'[p] = registry[p]]_vars

\* a package with a release version older than every preview version and
\* exactly maxVersions preview versions: one preview version was deleted, the
\* release version and the other package's versions are still there
C28_Witness ==
    /\ CleanupReturned("r1")
    /\ maxVersions["r1"] > 1
    /\ \E d \in DecisionsOf("r1", "pa") :
        /\ Len(d.listed) = maxVersions["r1"]
        /\ Cardinality(CandidatesOf("r1", d)) = Len(d.listed)
    /\ DeletedCount("r1", "pa") = 1
    /\ registry["pa"][1].version = ReleaseVersion
    /\ TagsOfVersion("pa", ReleaseVersion) = {}
    /\ PreviewCount("pb") = MaxHist /\ MaxHist >= maxVersions["r1"]

\* the registry reports no publish time for version v of package p
Untimed(p, v) == \E i \in 1..Len(registry[p]) : registry[p][i].version = v /\ registry[p][i].time = NoTime

\* C29: a preview version without a publish time is listed with a publish
\* time that is not before the run's now, and with min-age-days > 0 it is not
\* selected and no deletion is issued for it.
C29_UntimedNeverSelected ==
    \A r \in Runs : \A p \in PackageNames : \A d \in DecisionsOf(r, p) : \A e \in Listed(d) :
        Untimed(p, e.version) =>
            /\ e.publishedAt >= now[r]
            /\ minAgeDays[r] > 0 =>
                /\ e.version \notin SelectedVersions(d)
                /\ \A k \in 1..Len(log[r]) : log[r][k].version # e.version

\* a package over its ceiling, min-age-days > 0: the version without a publish
\* time and without tags was listed half a day after the run took its now and
\* was not selected, though fewer versions than the quota were
C29_Witness ==
    /\ CleanupReturned("r1") /\ minAgeDays["r1"] > 0
    /\ \E d \in DecisionsOf("r1", "pa") :
        /\ Len(d.listed) > maxVersions["r1"]
        /\ Len(d.selected) < Quota("r1", d)
        /\ Len(d.selected) >= 1
        /\ \E e \in Listed(d) :
            /\ Untimed("pa", e.version) /\ e.tags = {}
            /\ e.publishedAt > now["r1"]
            /\ e.version \notin SelectedVersions(d)

\* ------------------------------------------------ computeVersions alone
\* branch names, with every kind of character
RefChars == Chars \cup {"_"}
RefPool == SeqsUpTo(RefChars, MaxRefLen)

\* declared versions
VersionTokens == {"1.0.0", "2.3.0", "0.0.1", "-", "in", "development", "rc.1"}
VersionPool == SeqsUpTo(VersionTokens, MaxVersionLen)

\* dist folders: regular files, a subdirectory with at most one file, and an
\* entry that is neither
FileChars == {"a", "b"}
FileNames == SeqsUpTo(FileChars, MaxNameLen)
FileContents == {<<>>, <<"a">>}
File(name, content) == [name |-> name, kind |-> "file", content |-> content, entries |-> <<>>]
Directory(name, entries) == [name |-> name, kind |-> "dir", content |-> <<>>, entries |-> entries]
Other(name) == [name |-> name, kind |-> "other", content |-> <<>>, entries |-> <<>>]
EntryPool ==
    {File(n, c) : n \in FileNames, c \in FileContents}
    \cup {Directory(<<"a">>, <<>>)}
    \cup {Directory(<<"a">>, <<File(n, <<>>)>>) : n \in SeqsUpTo(FileChars, 1)}
    \cup {Other(<<"b">>)}
DistinctNames(es) == \A i \in 1..Len(es) : \A j \in 1..Len(es) : i # j => es[i].name # es[j].name
DistPool == {es \in UNION {[1..k -> EntryPool] : k \in 0..MaxEntries} : DistinctNames(es)}
\* the orders readdir can enumerate the same entries in
Reorderings(es) ==
    {[i \in 1..Len(es) |-> es[f[i]]] :
        f \in {g \in [1..Len(es) -> 1..Len(es)] : \A i \in 1..Len(es) : \A j \in 1..Len(es) : i # j => g[i] # g[j]}}

TwoFiles == <<File(<<"b">>, <<"a">>), File(<<"a">>, <<>>)>>

\* both runs hash the same dist folder, enumerated in two orders
ReorderedFolderScenario ==
    /\ branch = [r \in Runs |-> <<"a">>]
    /\ \E es \in DistPool : \E es2 \in Reorderings(es) :
        packages = [r \in Runs |->
            PackagesWith(DeclaredVersion, Dist(IF r = "r1" THEN es ELSE es2), Dist(<<>>))]
    /\ pc = [r \in Runs |-> "computeVersions"]

\* every branch name, against the same name and against every name of one
\* character; the same dist folder, or another one
BranchesScenario ==
    /\ \E b1 \in RefPool : \E b2 \in {b1} \cup SeqsUpTo(RefChars, 1) :
        branch = [r \in Runs |-> IF r = "r1" THEN b1 ELSE b2]
    /\ \E es2 \in Reorderings(TwoFiles) \cup {<<File(<<"b">>, <<>>)>>} :
        packages = [r \in Runs |->
            PackagesWith(DeclaredVersion, Dist(IF r = "r1" THEN TwoFiles ELSE es2), Dist(<<>>))]
    /\ pc = [r \in Runs |-> "computeVersions"]

\* every declared version, the empty one included
DeclaredVersionScenario ==
    /\ branch = [r \in Runs |-> <<"a">>]
    /\ \E v \in VersionPool \cup {NoVersion} :
        packages = [r \in Runs |-> PackagesWith(v, Dist(TwoFiles), Dist(<<>>))]
    /\ pc = [r \in Runs |-> IF r = "r1" THEN "computeVersions" ELSE "idle"]

\* a package without a dist folder
MissingDistScenario ==
    /\ branch = [r \in Runs |-> <<"a">>]
    /\ \E d1 \in {NoDist, Dist(TwoFiles)} : \E d2 \in {NoDist, Dist(<<>>)} :
        packages = [r \in Runs |-> PackagesWith(DeclaredVersion, d1, d2)]
    /\ pc = [r \in Runs |-> IF r = "r1" THEN "computeVersions" ELSE "idle"]

InitVersions ==
    /\ \/ ReorderedFolderScenario
       \/ BranchesScenario
       \/ DeclaredVersionScenario
       \/ MissingDistScenario
    /\ versions = [r \in Runs |-> <<>>]
    /\ maxVersions = [r \in Runs |-> MaxHist]
    /\ minAgeDays = [r \in Runs |-> 0]
    /\ EmptyRegistry
    /\ FreshRuns
    /\ NoProbe

NextVersions == \E r \in Runs : ComputeVersions(r)

SpecVersions == InitVersions /\ [][NextVersions]_vars

\* ------------------------------------------- computeVersions: the claims
\* computeVersions has returned to run r
Computed(r) == pc[r] = "getAllBranches"
BothComputed == \A r \in Runs : Computed(r)
DistOf(r, i) == packages[r][i].dist

\* the regular files of a dist folder: relative path and content
FilesIn(dist) ==
    LET es == dist.entries
        top == {[path |-> es[i].name, content |-> es[i].content] :
                    i \in {j \in 1..Len(es) : es[j].kind = "file"}}
        sub == UNION {{[path |-> es[i].name \o <<"/">> \o es[i].entries[k].name,
                        content |-> es[i].entries[k].content] :
                            k \in {l \in 1..Len(es[i].entries) : es[i].entries[l].kind = "file"}} :
                      i \in {j \in 1..Len(es) : es[j].kind = "dir"}}
    IN top \cup sub

\* x comes before y in the order of code units
PathBefore(x, y) ==
    \E k \in 1..(Len(y)) :
        /\ Len(x) >= k - 1
        /\ \A i \in 1..(k - 1) : x[i] = y[i]
        /\ (Len(x) = k - 1 \/ CharCode(x[k]) < CharCode(y[k]))

RECURSIVE Stream(_)
Stream(q) == IF q = <<>> THEN <<>> ELSE Head(q).path \o Head(q).content \o Stream(Tail(q))

\* h is what the files F give when taken in the order of their paths, each
\* contributing its relative path, then its content
IsSortedStreamOf(h, F) ==
    \E q \in [1..Cardinality(F) -> F] :
        /\ \A i \in 1..Len(q) : \A j \in 1..Len(q) : i < j => PathBefore(q[i].path, q[j].path)
        /\ h = Stream(q)

\* C14: two runs of computeVersions on the same package, with the same
\* declared version and the same dist content: the previewVersion is the same
\* whatever the branch names, and only branchTag can differ; branchTag is the
\* same for every package of a run, and the same for two runs of one branch.
C14_VersionIndependentOfBranch ==
    BothComputed =>
        /\ \A i \in 1..Len(Packages) :
            (packages["r1"][i].version = packages["r2"][i].version
                    /\ FilesIn(DistOf("r1", i)) = FilesIn(DistOf("r2", i)))
                => /\ versions["r1"][i].previewVersion = versions["r2"][i].previewVersion
                   /\ [versions["r1"][i] EXCEPT !.branchTag = <<>>]
                        = [versions["r2"][i] EXCEPT !.branchTag = <<>>]
        /\ \A r \in Runs : \A i \in 1..Len(Packages) :
            versions[r][i].branchTag = versions[r][1].branchTag
        /\ branch["r1"] = branch["r2"] =>
            versions["r1"][1].branchTag = versions["r2"][1].branchTag

\* two branches with different tags, the same content enumerated in two orders
C14_Witness ==
    /\ BothComputed
    /\ branch["r1"] # branch["r2"]
    /\ versions["r1"][1].branchTag # versions["r2"][1].branchTag
    /\ DistOf("r1", 1).entries # DistOf("r2", 1).entries
    /\ FilesIn(DistOf("r1", 1)) = FilesIn(DistOf("r2", 1))
    /\ versions["r1"][1].previewVersion = versions["r2"][1].previewVersion

\* the base version in a computed previewVersion
BaseOf(info) == SubSeq(info.previewVersion, 1, Len(info.previewVersion) - 2)

\* b is v truncated at its first hyphen
IsTruncatedAtFirstHyphen(b, v) ==
    /\ Len(b) <= Len(v)
    /\ \A i \in 1..Len(b) : b[i] = v[i] /\ b[i] # "-"
    /\ (Len(b) = Len(v) \/ v[Len(b) + 1] = "-")

\* C15: the base version is the declared version truncated at its first
\* hyphen; it holds no hyphen, stripping -in-development first changes
\* nothing, extracting again changes nothing, and the three examples come out
\* as 1.0.0, 2.3.0 and 0.0.1; previewVersion is the base, then -preview., then
\* the fingerprint.
C15_BaseVersion ==
    \A r \in Runs : Computed(r) => \A i \in 1..Len(Packages) :
        LET v == packages[r][i].version
            info == versions[r][i]
            base == BaseOf(info)
        IN /\ Len(info.previewVersion) >= 2
           /\ info.previewVersion = base \o <<"-preview.", info.contentHash>>
           /\ IsTruncatedAtFirstHyphen(base, v)
           /\ StripFromFirstHyphen(v) = base
           /\ baseVersionOf(base) = base
           /\ (v = <<"1.0.0", "-", "in", "-", "development">> => base = <<"1.0.0">>)
           /\ (v = <<"2.3.0", "-", "rc.1">> => base = <<"2.3.0">>)
           /\ (v = <<"0.0.1">> => base = <<"0.0.1">>)

\* 2.3.0-rc.1 was resolved
C15_Witness ==
    /\ Computed("r1")
    /\ packages["r1"][1].version = <<"2.3.0", "-", "rc.1">>
    /\ BaseOf(versions["r1"][1]) = <<"2.3.0">>

\* 1.0.0-in-development was resolved
C15_WitnessInDevelopment ==
    /\ Computed("r1")
    /\ packages["r1"][1].version = <<"1.0.0", "-", "in", "-", "development">>
    /\ versions["r1"][1].previewVersion = <<"1.0.0", "-preview.", versions["r1"][1].contentHash>>

\* C22: computeVersions rejects an empty declared version: a run with a
\* package whose declared version is empty gets no VersionInfo, and no
\* previewVersion is produced.
C22_EmptyVersionRejected ==
    \A r \in Runs : \A i \in 1..Len(Packages) :
        packages[r][i].version = NoVersion => ~Computed(r) /\ versions[r] = <<>>

\* C16: branchTag is branch- followed by the branch name with every character
\* outside [A-Za-z0-9_-] replaced by one hyphen: the length is kept, the
\* allowed characters are unchanged, sanitizing the result changes nothing;
\* the branch a/a gives branch-a-a.
C16_BranchTag ==
    \A r \in Runs : Computed(r) => \A i \in 1..Len(Packages) :
        LET tag == versions[r][i].branchTag
            name == SubSeq(tag, 2, Len(tag))
        IN /\ tag[1] = "branch-"
           /\ Len(name) = Len(branch[r])
           /\ \A k \in 1..Len(name) :
                name[k] = IF branch[r][k] \in {"a", "_", "-"} THEN branch[r][k] ELSE "-"
           /\ sanitizeBranchName(name) = name
           /\ (branch[r] = <<"a", "/", "a">> => tag = <<"branch-", "a", "-", "a">>)

\* a branch name with a slash, a dot and an underscore was sanitized
C16_Witness ==
    /\ Computed("r1")
    /\ branch["r1"] = <<"_", "/", ".">>
    /\ versions["r1"][1].branchTag = <<"branch-", "_", "-", "-">>

\* C17: hashDirectory gives the same fingerprint for the same files whatever
\* the order readdir enumerates them in: the digest is fed the files in the
\* order of their paths, each as its relative path followed by its content.
C17_EnumerationOrder ==
    /\ \A r \in Runs : Computed(r) => \A i \in 1..Len(Packages) :
        IsSortedStreamOf(versions[r][i].contentHash, FilesIn(DistOf(r, i)))
    /\ BothComputed => \A i \in 1..Len(Packages) :
        FilesIn(DistOf("r1", i)) = FilesIn(DistOf("r2", i))
            => versions["r1"][i].contentHash = versions["r2"][i].contentHash

\* two files and a subdirectory's file, enumerated in two orders
C17_Witness ==
    /\ BothComputed
    /\ DistOf("r1", 1).entries # DistOf("r2", 1).entries
    /\ \E i \in 1..Len(DistOf("r1", 1).entries) : DistOf("r1", 1).entries[i].kind = "dir"
    /\ Cardinality(FilesIn(DistOf("r1", 1))) = 2
    /\ FilesIn(DistOf("r1", 1)) = FilesIn(DistOf("r2", 1))
    /\ versions["r1"][1].contentHash = versions["r2"][1].contentHash

\* ------------------------------------------ two dist folders, hashed
\* each run hashes a dist folder of its own
InitPaths ==
    /\ branch = [r \in Runs |-> <<"a">>]
    /\ \E es1 \in DistPool : \E es2 \in DistPool :
        packages = [r \in Runs |->
            PackagesWith(DeclaredVersion, Dist(IF r = "r1" THEN es1 ELSE es2), Dist(<<>>))]
    /\ pc = [r \in Runs |-> "computeVersions"]
    /\ versions = [r \in Runs |-> <<>>]
    /\ maxVersions = [r \in Runs |-> MaxHist]
    /\ minAgeDays = [r \in Runs |-> 0]
    /\ EmptyRegistry
    /\ FreshRuns
    /\ NoProbe

NextPaths == \E r \in Runs : ComputeVersions(r)

SpecPaths == InitPaths /\ [][NextPaths]_vars

PathsOf(F) == {f.path : f \in F}
\* the files of F and of G have the same contents, file by file
SameContents(F, G) ==
    /\ Cardinality(F) = Cardinality(G)
    /\ \A c \in FileContents :
        Cardinality({f \in F : f.content = c}) = Cardinality({g \in G : g.content = c})

\* C18: two dist folders whose files have the same contents but different
\* relative paths get different fingerprints.
C18_PathSensitive ==
    BothComputed =>
        LET F == FilesIn(DistOf("r1", 1))
            G == FilesIn(DistOf("r2", 1))
        IN (SameContents(F, G) /\ PathsOf(F) # PathsOf(G))
            => versions["r1"][1].contentHash # versions["r2"][1].contentHash

\* ------------------------------- areAllBranchesDeleted called directly
ProbeNames == SeqsUpTo(Chars, MaxProbeLen)
ProbeTags == {branchTagOf(b) : b \in ProbeNames} \cup {<<"latest">>}

\* at most two tags of a version and at most two live branches
InitBranches ==
    /\ probe \in [tags : SetsUpTo2(ProbeTags), existing : SetsUpTo2(ProbeNames)]
    /\ verdict = [returned |-> FALSE, value |-> FALSE]
    /\ EmptyRegistry
    /\ FreshRuns
    /\ branch = [r \in Runs |-> <<"a">>]
    /\ packages = [r \in Runs |-> DefaultPackages]
    /\ versions = [r \in Runs |-> <<>>]
    /\ maxVersions = [r \in Runs |-> MaxHist]
    /\ minAgeDays = [r \in Runs |-> 0]
    /\ pc = [r \in Runs |-> "idle"]

NextBranches == CallAreAllBranchesDeleted

SpecBranches == InitBranches /\ [][NextBranches]_vars

\* b is the name s, or s with every hyphen turned into a slash
LiteralOrSlashed(b, s) ==
    /\ Len(b) = Len(s)
    /\ \/ \A i \in 1..Len(s) : b[i] = s[i]
       \/ \A i \in 1..Len(s) : IF s[i] = "-" THEN b[i] = "/" ELSE b[i] = s[i]

\* C11: for a version whose only tag is branch-<s>, areAllBranchesDeleted
\* answers true if and only if neither s nor s with its hyphens turned into
\* slashes is a live branch; for a version with no tag starting with branch-
\* it answers true for every set of live branches.
C11_BranchLiveness ==
    verdict.returned =>
        /\ \A t \in probe.tags :
            (probe.tags = {t} /\ t[1] = "branch-") =>
                (verdict.value <=>
                    ~\E b \in probe.existing :
                        LiteralOrSlashed(b, SubSeq(t, 2, Len(t))))
        /\ (\A t \in probe.tags : t[1] # "branch-") => verdict.value

\* the only tag is branch-a-, the branch a/ is live and a- is not: not deletable
C11_Witness ==
    /\ verdict.returned /\ ~verdict.value
    /\ probe.tags = {<<"branch-", "a", "-">>}
    /\ probe.existing = {<<"a", "/">>, <<"a", ".">>}

\* the only tag is branch-a-, the only live branch is a.: deletable
C11_WitnessLookalike ==
    /\ verdict.returned /\ verdict.value
    /\ probe.tags = {<<"branch-", "a", "-">>}
    /\ probe.existing = {<<"a", ".">>}

\* only another tag, with live branches: deletable
C11_WitnessNoBranchTag ==
    /\ verdict.returned /\ verdict.value
    /\ probe.tags = {<<"latest">>}
    /\ probe.existing # {}

\* ------------------------- a run cleaning up while another run publishes
\* the branch names the reverse lookup of areAllBranchesDeleted recovers from
\* their tag, other than the cleaning run's own
RaceBranches ==
    {b \in BranchPool : b # <<"a">> /\ LiteralOrSlashed(b, sanitizeBranchName(b))}

\* the first package has old preview versions, at most one of them tagged;
\* the first run starts its cleanup, the second run, of another live branch,
\* publishes content that one of the old versions holds
InitRace ==
    /\ clock = MaxAgeSteps * HalfDayMs
    /\ \E b \in RaceBranches : branch = [r \in Runs |-> IF r = "r1" THEN <<"a">> ELSE b]
    /\ liveBranches = {branch[r] : r \in Runs}
    /\ \E n \in 1..MaxHist :
        /\ registry = [p \in PackageNames |->
                IF p = "pa" THEN HistoryOf(1, [i \in 1..n |-> MaxAgeSteps], clock) ELSE <<>>]
        /\ \E S \in TagPlacementsUpTo(registry, 1) : distTags = TagsFrom(registry, S)
        /\ \E h \in 1..n :
            versions = [r \in Runs |-> [i \in 1..Len(Packages) |->
                VersionInfoOf(Packages[i], IF r = "r1" THEN 0 ELSE h, branch[r])]]
    /\ \E mv \in MaxVersionsInputs : maxVersions = [r \in Runs |-> mv]
    /\ \E md \in MinAgeDaysInputs : minAgeDays = [r \in Runs |-> md]
    /\ pc = [r \in Runs |-> IF r = "r1" THEN "getAllBranches" ELSE "versionExists"]
    /\ FreshRuns
    /\ packages = [r \in Runs |-> DefaultPackages]
    /\ NoProbe

NextRace == \E r \in Runs : CleanupStep(r) \/ PublishStep(r)

SpecRace == InitRace /\ [][NextRace]_vars

\* ----------------------------------------- cleanup and publish: the claims
\* the tags of the live branches
LiveTags == {branchTagOf(b) : b \in liveBranches}

\* C27 as stated, for runs in which every call is answered: no version is
\* deleted while the tag of a live branch points at it at the moment of the
\* deletion.
C27_NoLiveTaggedVersionDeleted ==
    \A r \in Runs : \A k \in 1..Len(log[r]) :
        (faults = 0 /\ log[r][k].result = "deleted") => log[r][k].tagsNow \cap LiveTags = {}

\* C27, amended: no deletion is issued for a version that carried, in the
\* listing the cleaning run took, a branch- tag whose name, literally or with
\* its hyphens turned into slashes, is in the branch list the run fetched.
C27_ListedLiveTagProtects ==
    \A r \in Runs : \A k \in 1..Len(log[r]) : \A t \in log[r][k].tags :
        StartsWithBranch(t) =>
            \A b \in existingBranches[r] : ~LiteralOrSlashed(b, StripBranchPrefix(t))

\* the second run attached its tag to an old version before the first run
\* listed the package: the version was not selected, though fewer versions
\* than the quota were; a version tagged latest was deleted
C27_Witness ==
    /\ Processed("r2", "pa") /\ pc["r1"] = "done" /\ faults = 0
    /\ VersionInRegistry("pa", VersionOfRun("r2", "pa"))
    /\ \E d \in DecisionsOf("r1", "pa") :
        /\ Len(d.selected) < Quota("r1", d)
        /\ \E e \in Listed(d) : \E f \in Listed(d) :
            /\ e.version = VersionOfRun("r2", "pa")
            /\ e.tags = {TagOfRun("r2")}
            /\ e.version \notin SelectedVersions(d)
            /\ f.tags = {<<"latest">>}
            /\ DeletedByRun("r1", "pa", f.version)

====
